---- MODULE Spec2Model ----
(***************************************************************************)
(* Verification model of tele2tube-user.                                   *)
(*                                                                         *)
(*   uploader_script.py : fast_download (parallel segmented download),     *)
(*                        upload_to_youtube, process_single_link, run_flow *)
(*   process_videos.py  : analyze_with_ai (metadata enrichment)            *)
(*                                                                         *)
(* Four specifications share the variables below; each one initialises the *)
(* variables of the other parts to a fixed idle value and never changes    *)
(* them.                                                                   *)
(*   SpecDL   : one call of fast_download, one step per stretch of code    *)
(*              between two awaits of a worker coroutine                   *)
(*   SpecPlan : the segment arithmetic of fast_download as a function of   *)
(*              (totalSize, segmentSize)                                   *)
(*   SpecFlow : run_flow / process_single_link / upload_to_youtube         *)
(*   SpecAI   : analyze_with_ai on bounded strings                         *)
(***************************************************************************)
EXTENDS Integers, Sequences, FiniteSets, TLC

VARIABLES
    \* ---- fast_download ----
    dlpc,              \* position of the fast_download coroutine
    media,             \* message.media is truthy
    file_size,         \* document.size
    f,                 \* content of the file `filename` (f[p+1] = byte at position p)
    file_exists,       \* `filename` exists on disk
    queue,             \* asyncio.Queue of part indices (FIFO)
    unfinished,        \* the queue's unfinished-task counter (put / task_done)
    wpc,               \* per worker: "created", "fetching", "exited", "crashed"
    wpart,             \* per worker: part_index it holds
    wpos,              \* per worker: current_file_pos
    downloaded_bytes,  \* nonlocal downloaded_bytes
    reported,          \* last `current` handed to progress_callback
    fetched,           \* part indices whose async-for loop ended normally
    fails,             \* number of segment failures so far
    partial_retry,     \* a segment failed after some of its bytes were written
    late_requeue,      \* a segment was re-enqueued after another worker had exited
    \* ---- segment arithmetic ----
    totalSize, segmentSize, plan, planpc,
    \* ---- run_flow / process_single_link / upload_to_youtube ----
    fpc,               \* position of run_flow and of the call it is in
    links,             \* number of links of the batch
    li,                \* index of the link the for loop is at (0 before the loop)
    result,            \* run_flow's `result`
    outcome,           \* per link: what process_single_link returned ("none": no call returned)
    ending,            \* per link: the branch process_single_link returned from
    trace,             \* per link: the stages the call went through, in order
    disk,              \* the raw_file names that exist on disk (named by message id)
    raw_file,          \* raw_file of the current call (0: not determined)
    dl_size,           \* document.size of the current message
    status,            \* `status` of the current call (upload_to_youtube's return value)
    sink_kind,         \* what the sink answers once its transient failures are over
    sink_n,            \* number of transient failures the sink starts with
    sink_left,         \* transient failures the sink has left
    upl_sent,          \* chunks the sink has accepted
    flow_ret,          \* what run_flow returned ("running" until it returns)
    \* ---- analyze_with_ai ----
    aipc,              \* "call" before analyze_with_ai runs, "returned" after
    GH_TOKEN,          \* GH_TOKEN is set (truthy)
    text_content,      \* the argument, a sequence of characters
    reply,             \* what the POST to the analyzer came to
    ai_path,           \* the return statement taken: "early", "remote", "fallback"
    ai_result,         \* the dict returned
    \* ---- process_videos.main ----
    mpc,               \* position of main
    VIDEO_LINKS,       \* number of links of the batch
    item,              \* `i` of the for loop (0 before the loop)
    connected,         \* the Telegram client is connected
    message,           \* what resolve_telegram_message returned for the item
    metadata,          \* `metadata` of the item
    path,              \* `path` of the item (0: None, else the file of item `path`)
    path_size,         \* size of the file at `path`
    sent,              \* bytes of the file the resumable upload has sent
    playlist_id,       \* `playlist_id` is truthy
    mtrace,            \* per item: the stages main went through, in order
    mend,              \* per item: how the loop body ended ("none": it has not)
    mlog,              \* per item: the log_status tags written
    downloads          \* the items whose file exists in downloads/

dlvars == <<dlpc, media, file_size, f, file_exists, queue, unfinished, wpc, wpart,
            wpos, downloaded_bytes, reported, fetched, fails, partial_retry,
            late_requeue>>
planvars == <<totalSize, segmentSize, plan, planpc>>
flowvars == <<fpc, links, li, result, outcome, ending, trace, disk, raw_file, dl_size,
              status, sink_kind, sink_n, sink_left, upl_sent, flow_ret>>
aivars == <<aipc, GH_TOKEN, text_content, reply, ai_path, ai_result>>
mainvars == <<mpc, VIDEO_LINKS, item, connected, message, metadata, path, path_size,
              sent, playlist_id, mtrace, mend, mlog, downloads>>
vars == <<dlvars, planvars, flowvars, aivars, mainvars>>
notDL == <<planvars, flowvars, aivars, mainvars>>
notPlan == <<dlvars, flowvars, aivars, mainvars>>
notFlow == <<dlvars, planvars, aivars, mainvars>>
notAI == <<dlvars, planvars, flowvars, mainvars>>
notMain == <<dlvars, planvars, flowvars, aivars>>

Min(a, b) == IF a < b THEN a ELSE b
Max(a, b) == IF a > b THEN a ELSE b

(***************************************************************************)
(* Sizes.  The byte counts of the program are scaled: one model byte       *)
(* stands for one 512 KB request block, and a part holds part_size blocks. *)
(***************************************************************************)
PARALLEL_CHUNKS == 4
part_size == 2
request_size == 1
MaxFileSize == 6
MaxFailures == 2
MaxTotalSize == 12
MaxSegmentSize == 5
upload_chunksize == 4
MaxLinks == 3
MaxMsgId == 2
MaxTransient == 2
UploadMaxAttempts == 2
SegmentMaxAttempts == 2
MaxTextLen == 4
MaxTitleLen == 2
main_chunksize == 2
MaxVideoLinks == 2
MaxMainSize == 5
MaxMainTextLen == 1

Workers == 1..PARALLEL_CHUNKS

\* math.ceil(a / b) for a >= 0, b > 0
CeilDiv_floor(a, b) == a \div b
CeilDiv(a, b) == (a + b - 1) \div b

\* part_count = math.ceil(file_size / part_size)
PartCount(size, psize) == CeilDiv(size, psize)

\* offset = part_index * part_size
Offset(i, psize) == i * psize

\* current_limit = min(part_size, file_size - offset)
CurrentLimit(size, psize, i) == Min(psize, size - Offset(i, psize))

\* The byte the remote media holds at position p (never the 0 of the
\* pre-allocated file).
Source(p) == p + 1

\* The bytes a range read of [off, off+len) returns.
RangeRead(off, len) == [k \in 1..len |-> Source(off + k - 1)]

\* f.seek(pos); f.write(bytes): overwrite in place, zero-fill a gap, extend.
WriteAt(file, pos, bytes) ==
    [k \in 1..Max(Len(file), pos + Len(bytes)) |->
        IF k - 1 >= pos /\ k - 1 < pos + Len(bytes) THEN bytes[k - pos]
        ELSE IF k <= Len(file) THEN file[k] ELSE 0]

\* range(part_count) as the initial content of the queue
RECURSIVE Range(_)
Range(n) == IF n = 0 THEN <<>> ELSE Append(Range(n - 1), n - 1)

\* queue.put_nowait(part_index) in the except branch
Requeue_twice(q, i) == Append(Append(q, i), i)
Requeue(q, i) == Append(q, i)

\* where a worker writes the chunk it just received: f.seek(current_file_pos)
WritePos_offset(w) == Offset(wpart[w], part_size)
WritePos(w) == wpos[w]

\* f.seek(file_size - 1) raises OSError for a negative position
SeekRaises_never(size) == FALSE
SeekRaises(size) == size - 1 < 0

\* asyncio.gather(*tasks) returns once every worker task has finished
GatherReady_queue == queue = <<>> /\ \A w \in Workers : wpc[w] # "created"
GatherReady == \A w \in Workers : wpc[w] \in {"exited", "crashed"}

PlanIdle ==
    /\ totalSize = 0
    /\ segmentSize = 0
    /\ plan = <<>>
    /\ planpc = "idle"

AIIdle ==
    /\ aipc = "idle"
    /\ GH_TOKEN = FALSE
    /\ text_content = <<>>
    /\ reply = [kind |-> "none"]
    /\ ai_path = "none"
    /\ ai_result = [title |-> <<>>, category |-> "General"]

FlowIdle ==
    /\ fpc = "idle"
    /\ links = 0
    /\ li = 0
    /\ result = "none"
    /\ outcome = <<>>
    /\ ending = <<>>
    /\ trace = <<>>
    /\ disk = {}
    /\ raw_file = 0
    /\ dl_size = 0
    /\ status = "none"
    /\ sink_kind = "none"
    /\ sink_n = 0
    /\ sink_left = 0
    /\ upl_sent = 0
    /\ flow_ret = "running"

MainIdle ==
    /\ mpc = "idle"
    /\ VIDEO_LINKS = 0
    /\ item = 0
    /\ connected = FALSE
    /\ message = [found |-> FALSE, media |-> FALSE]
    /\ metadata = [title |-> <<>>, category |-> "General"]
    /\ path = 0
    /\ path_size = 0
    /\ sent = 0
    /\ playlist_id = FALSE
    /\ mtrace = <<>>
    /\ mend = <<>>
    /\ mlog = <<>>
    /\ downloads = {}

DLIdle ==
    /\ dlpc = "idle"
    /\ media = FALSE
    /\ file_size = 0
    /\ f = <<>>
    /\ file_exists = FALSE
    /\ queue = <<>>
    /\ unfinished = 0
    /\ wpc = [w \in Workers |-> "idle"]
    /\ wpart = [w \in Workers |-> 0]
    /\ wpos = [w \in Workers |-> 0]
    /\ downloaded_bytes = 0
    /\ reported = 0
    /\ fetched = {}
    /\ fails = 0
    /\ partial_retry = FALSE
    /\ late_requeue = FALSE

(***************************************************************************)
(* fast_download                                                           *)
(***************************************************************************)
DLInit ==
    /\ dlpc = "start"
    /\ media \in BOOLEAN
    /\ file_size \in 0..MaxFileSize
    /\ f = <<>>
    /\ file_exists = FALSE
    /\ queue = <<>>
    /\ unfinished = 0
    /\ wpc = [w \in Workers |-> "idle"]
    /\ wpart = [w \in Workers |-> 0]
    /\ wpos = [w \in Workers |-> 0]
    /\ downloaded_bytes = 0
    /\ reported = 0
    /\ fetched = {}
    /\ fails = 0
    /\ partial_retry = FALSE
    /\ late_requeue = FALSE

\* if not msg_media: return None
DLNoMedia ==
    /\ dlpc = "start"
    /\ ~media
    /\ dlpc' = "returned_none"
    /\ UNCHANGED <<media, file_size, f, file_exists, queue, unfinished, wpc, wpart,
                   wpos, downloaded_bytes, reported, fetched, fails, partial_retry,
                   late_requeue>>
    /\ UNCHANGED notDL

\* open(filename, 'wb'); f.seek(file_size - 1) raises for file_size = 0 and the
\* exception leaves fast_download; otherwise pre-allocate, fill the queue and
\* create the worker tasks.
DLOpen ==
    /\ dlpc = "start"
    /\ media
    /\ file_exists' = TRUE
    /\ IF SeekRaises(file_size)
       THEN /\ f' = <<>>
            /\ dlpc' = "raised"
            /\ UNCHANGED <<queue, unfinished, wpc>>
       ELSE /\ f' = WriteAt(<<>>, file_size - 1, <<0>>)
            /\ queue' = Range(PartCount(file_size, part_size))
            /\ unfinished' = PartCount(file_size, part_size)
            /\ wpc' = [w \in Workers |-> "created"]
            /\ dlpc' = "gather"
    /\ UNCHANGED <<media, file_size, wpart, wpos, downloaded_bytes, reported, fetched,
                   fails, partial_retry, late_requeue>>
    /\ UNCHANGED notDL

\* (a get that leaves the item in the queue)
LoopTop_peek(w, q) ==
    IF q = <<>>
    THEN /\ wpc' = [wpc EXCEPT ![w] = "exited"]
         /\ queue' = q
         /\ UNCHANGED <<wpart, wpos>>
    ELSE /\ wpc' = [wpc EXCEPT ![w] = "fetching"]
         /\ queue' = q
         /\ wpart' = [wpart EXCEPT ![w] = Head(q)]
         /\ wpos' = [wpos EXCEPT ![w] = Offset(Head(q), part_size)]

\* The worker at `while not queue.empty()`: the loop ends, or get_nowait() hands
\* it the head of the queue and it starts the range read of that part.
\* (q is the queue as the worker finds it.)
LoopTop(w, q) ==
    IF q = <<>>
    THEN /\ wpc' = [wpc EXCEPT ![w] = "exited"]
         /\ queue' = q
         /\ UNCHANGED <<wpart, wpos>>
    ELSE /\ wpc' = [wpc EXCEPT ![w] = "fetching"]
         /\ queue' = Tail(q)
         /\ wpart' = [wpart EXCEPT ![w] = Head(q)]
         /\ wpos' = [wpos EXCEPT ![w] = Offset(Head(q), part_size)]

\* A worker task runs for the first time, or comes back to the loop top.
WorkerStart(w) ==
    /\ dlpc = "gather"
    /\ wpc[w] = "created"
    /\ LoopTop(w, queue)
    /\ UNCHANGED <<dlpc, media, file_size, f, file_exists, unfinished,
                   downloaded_bytes, reported, fetched, fails, partial_retry,
                   late_requeue>>
    /\ UNCHANGED notDL

\* iter_download yields the next chunk of the part: write it under the lock,
\* advance current_file_pos and downloaded_bytes, call progress_callback.
WorkerChunk(w) ==
    /\ dlpc = "gather"
    /\ wpc[w] = "fetching"
    /\ LET off == Offset(wpart[w], part_size)
           lim == CurrentLimit(file_size, part_size, wpart[w])
           len == Min(request_size, off + lim - wpos[w])
           chunk == RangeRead(wpos[w], len)
       IN /\ wpos[w] < off + lim
          /\ f' = WriteAt(f, WritePos(w), chunk)
          /\ wpos' = [wpos EXCEPT ![w] = @ + Len(chunk)]
          /\ downloaded_bytes' = downloaded_bytes + Len(chunk)
          /\ reported' = downloaded_bytes + Len(chunk)
    /\ UNCHANGED <<dlpc, media, file_size, file_exists, queue, unfinished, wpc, wpart,
                   fetched, fails, partial_retry, late_requeue>>
    /\ UNCHANGED notDL

\* queue.task_done() in the finally branch: ValueError when called more often
\* than items were put.
TaskDone(w, q) ==
    IF unfinished <= 0
    THEN /\ wpc' = [wpc EXCEPT ![w] = "crashed"]
         /\ queue' = q
         /\ UNCHANGED <<unfinished, wpart, wpos>>
    ELSE /\ unfinished' = unfinished - 1
         /\ LoopTop(w, q)

\* The async-for loop of the part ends normally: task_done(), back to the loop
\* top.
WorkerSegmentDone(w) ==
    /\ dlpc = "gather"
    /\ wpc[w] = "fetching"
    /\ wpos[w] = Offset(wpart[w], part_size) + CurrentLimit(file_size, part_size, wpart[w])
    /\ fetched' = fetched \cup {wpart[w]}
    /\ TaskDone(w, queue)
    /\ UNCHANGED <<dlpc, media, file_size, f, file_exists, downloaded_bytes, reported,
                   fails, partial_retry, late_requeue>>
    /\ UNCHANGED notDL

\* The range read raises at one of its awaits: put the index back, task_done(),
\* back to the loop top (no await in between).
WorkerFail(w) ==
    /\ dlpc = "gather"
    /\ wpc[w] = "fetching"
    /\ fails < MaxFailures
    /\ fails' = fails + 1
    /\ partial_retry' = (partial_retry \/ wpos[w] > Offset(wpart[w], part_size))
    /\ late_requeue' = (late_requeue \/ \E v \in Workers : wpc[v] = "exited")
    /\ LET q == Requeue(queue, wpart[w])
       IN IF unfinished + 1 <= 0
          THEN /\ wpc' = [wpc EXCEPT ![w] = "crashed"]
               /\ queue' = q
               /\ UNCHANGED <<unfinished, wpart, wpos>>
          ELSE /\ unfinished' = unfinished
               /\ LoopTop(w, q)
    /\ UNCHANGED <<dlpc, media, file_size, f, file_exists, downloaded_bytes, reported,
                   fetched>>
    /\ UNCHANGED notDL

\* await asyncio.gather(*tasks) returns; the file is closed; return filename.
\* (A worker that crashed makes gather raise instead.)
DLGather ==
    /\ dlpc = "gather"
    /\ GatherReady
    /\ dlpc' = IF \E w \in Workers : wpc[w] = "crashed" THEN "raised" ELSE "returned"
    /\ UNCHANGED <<media, file_size, f, file_exists, queue, unfinished, wpc, wpart,
                   wpos, downloaded_bytes, reported, fetched, fails, partial_retry,
                   late_requeue>>
    /\ UNCHANGED notDL

DLNext ==
    \/ DLNoMedia
    \/ DLOpen
    \/ \E w \in Workers : WorkerStart(w)
    \/ \E w \in Workers : WorkerChunk(w)
    \/ \E w \in Workers : WorkerSegmentDone(w)
    \/ \E w \in Workers : WorkerFail(w)
    \/ DLGather

InitDL == DLInit /\ PlanIdle /\ FlowIdle /\ AIIdle /\ MainIdle
SpecDL == InitDL /\ [][DLNext]_vars

(***************************************************************************)
(* Segment arithmetic of fast_download, for any total size and part size   *)
(***************************************************************************)
PlanInit ==
    /\ totalSize \in 1..MaxTotalSize
    /\ segmentSize \in 1..MaxSegmentSize
    /\ plan = <<>>
    /\ planpc = "planning"

\* One pass of `for i in range(part_count)`, with the offset and limit the
\* worker computes for index i.
PlanSegment ==
    /\ planpc = "planning"
    /\ Len(plan) < PartCount(totalSize, segmentSize)
    /\ LET i == Len(plan)
       IN plan' = Append(plan, [index |-> i,
                                offset |-> Offset(i, segmentSize),
                                length |-> CurrentLimit(totalSize, segmentSize, i)])
    /\ UNCHANGED <<totalSize, segmentSize, planpc>>
    /\ UNCHANGED notPlan

PlanDone ==
    /\ planpc = "planning"
    /\ Len(plan) = PartCount(totalSize, segmentSize)
    /\ planpc' = "planned"
    /\ UNCHANGED <<totalSize, segmentSize, plan>>
    /\ UNCHANGED notPlan

PlanNext == PlanSegment \/ PlanDone

InitPlan == PlanInit /\ DLIdle /\ FlowIdle /\ AIIdle /\ MainIdle
SpecPlan == InitPlan /\ [][PlanNext]_vars

(***************************************************************************)
(* run_flow, process_single_link, upload_to_youtube                        *)
(***************************************************************************)
Links == 1..links
MsgIds == 1..MaxMsgId

\* The stages a call of process_single_link can record in trace.
Stages == {"resolve", "download", "metadata", "upload", "cleanup"}

FlowInit ==
    /\ fpc = "start"
    /\ links \in 1..MaxLinks
    /\ li = 0
    /\ result = "none"
    /\ outcome = [j \in 1..links |-> "none"]
    /\ ending = [j \in 1..links |-> "none"]
    /\ trace = [j \in 1..links |-> <<>>]
    /\ disk \in SUBSET MsgIds
    /\ raw_file = 0
    /\ dl_size = 0
    /\ status = "none"
    /\ sink_kind = "none"
    /\ sink_n = 0
    /\ sink_left = 0
    /\ upl_sent = 0
    /\ flow_ret = "running"

\* `return v` of process_single_link, from the branch named e
PSLReturn(v, e) ==
    /\ outcome' = [outcome EXCEPT ![li] = v]
    /\ ending' = [ending EXCEPT ![li] = e]
    /\ fpc' = "returned"

\* except Exception as e: ... return False   (process_single_link)
PSLExcept(e) == PSLReturn("False", e)

Stage(name) == trace' = [trace EXCEPT ![li] = Append(@, name)]

\* the except branches of upload_to_youtube: the value returned for an error
UploadErrorResult(err) ==
    IF err = "http_quota" THEN "LIMIT_REACHED" ELSE "False"

\* chunks MediaFileUpload cuts a file of `size` into
UploadChunks(size) == CeilDiv(size, upload_chunksize)

\* `if result == "LIMIT_REACHED": break`
BreakOn_failure(r) == r # "True"
BreakOn(r) == r = "LIMIT_REACHED"

\* client.start() succeeds
ClientStart ==
    /\ fpc = "start"
    /\ fpc' = "loop"
    /\ UNCHANGED <<links, li, result, outcome, ending, trace, disk, raw_file, dl_size,
                   status, sink_kind, sink_n, sink_left, upl_sent, flow_ret>>
    /\ UNCHANGED notFlow

\* client.start() raises: `except Exception` of run_flow, which then returns
ClientStartFails ==
    /\ fpc = "start"
    /\ fpc' = "client_error"
    /\ flow_ret' = "None"
    /\ UNCHANGED <<links, li, result, outcome, ending, trace, disk, raw_file, dl_size,
                   status, sink_kind, sink_n, sink_left, upl_sent>>
    /\ UNCHANGED notFlow

\* `for link in links:` takes the next link and calls process_single_link
LoopNext ==
    /\ fpc = "loop"
    /\ li < links
    /\ li' = li + 1
    /\ fpc' = "parse"
    /\ raw_file' = 0
    /\ dl_size' = 0
    /\ status' = "none"
    /\ sink_kind' = "none"
    /\ sink_n' = 0
    /\ sink_left' = 0
    /\ upl_sent' = 0
    /\ UNCHANGED <<links, result, outcome, ending, trace, disk, flow_ret>>
    /\ UNCHANGED notFlow

\* the for loop is exhausted
LoopEnd ==
    /\ fpc = "loop"
    /\ li = links
    /\ fpc' = "disconnect"
    /\ UNCHANGED <<links, li, result, outcome, ending, trace, disk, raw_file, dl_size,
                   status, sink_kind, sink_n, sink_left, upl_sent, flow_ret>>
    /\ UNCHANGED notFlow

\* parse_telegram_link: (None, None) for a link of no known form
ParseLink ==
    /\ fpc = "parse"
    /\ \E valid \in BOOLEAN :
          IF valid
          THEN /\ fpc' = "fetch"
               /\ UNCHANGED <<outcome, ending>>
          ELSE PSLReturn("True", "invalid_link")
    /\ UNCHANGED <<links, li, result, trace, disk, raw_file, dl_size, status, sink_kind,
                   sink_n, sink_left, upl_sent, flow_ret>>
    /\ UNCHANGED notFlow

\* client.get_messages, the media test, the file name and the safety removal
\* of a stale raw_file
FetchMessage ==
    /\ fpc = "fetch"
    /\ Stage("resolve")
    /\ \E r \in {"ValueError", "Exception", "no_message", "no_media", "media"} :
          CASE r = "ValueError" ->
                  PSLReturn("True", "no_access") /\ UNCHANGED <<raw_file, disk>>
            [] r = "Exception" ->
                  PSLReturn("True", "fetch_error") /\ UNCHANGED <<raw_file, disk>>
            [] r \in {"no_message", "no_media"} ->
                  PSLReturn("True", "no_media") /\ UNCHANGED <<raw_file, disk>>
            [] r = "media" ->
                  \E m \in MsgIds :
                      /\ raw_file' = m
                      /\ disk' = disk \ {m}
                      /\ fpc' = "download"
                      /\ UNCHANGED <<outcome, ending>>
    /\ UNCHANGED <<links, li, result, dl_size, status, sink_kind, sink_n, sink_left,
                   upl_sent, flow_ret>>
    /\ UNCHANGED notFlow

\* fast_download up to the creation of the workers: document.size may raise
\* (media without a size); open() creates raw_file; seek(file_size - 1) raises
\* for file_size = 0.  Any exception reaches process_single_link's handler.
DownloadOpen ==
    /\ fpc = "download"
    /\ Stage("download")
    /\ \E sized \in BOOLEAN, s \in 0..MaxFileSize :
          IF ~sized
          THEN /\ PSLExcept("download_error")
               /\ UNCHANGED <<disk, dl_size>>
          ELSE /\ dl_size' = s
               /\ disk' = disk \cup {raw_file}
               /\ IF SeekRaises(s)
                  THEN PSLExcept("download_error")
                  ELSE fpc' = "downloading" /\ UNCHANGED <<outcome, ending>>
    /\ UNCHANGED <<links, li, result, raw_file, status, sink_kind, sink_n, sink_left,
                   upl_sent, flow_ret>>
    /\ UNCHANGED notFlow

\* gather returns (SpecDL), fast_download returns; get_simple_metadata
DownloadGather ==
    /\ fpc = "downloading"
    /\ Stage("metadata")
    /\ fpc' = "upload_init"
    /\ UNCHANGED <<links, li, result, outcome, ending, disk, raw_file, dl_size, status,
                   sink_kind, sink_n, sink_left, upl_sent, flow_ret>>
    /\ UNCHANGED notFlow

\* upload_to_youtube up to the first next_chunk: creds.refresh may raise.
\* The sink met is one that fails transiently sink_n times and then answers
\* by its kind.
UploadInit ==
    /\ fpc = "upload_init"
    /\ Stage("upload")
    /\ \E refreshed \in BOOLEAN :
          IF refreshed
          THEN /\ \E k \in {"ok", "http_quota", "http_other"}, n \in 0..MaxTransient :
                     /\ sink_kind' = k
                     /\ sink_n' = n
                     /\ sink_left' = n
               /\ fpc' = "uploading"
               /\ UNCHANGED status
          ELSE /\ status' = UploadErrorResult("exception")
               /\ fpc' = "cleanup"
               /\ UNCHANGED <<sink_kind, sink_n, sink_left>>
    /\ UNCHANGED <<links, li, result, outcome, ending, disk, raw_file, dl_size,
                   upl_sent, flow_ret>>
    /\ UNCHANGED notFlow

\* one request.next_chunk(): an exception ends upload_to_youtube with the
\* value of its except branch; the last chunk ends it with True.
UploadChunk ==
    /\ fpc = "uploading"
    /\ IF sink_left > 0
       THEN /\ sink_left' = sink_left - 1
            /\ \E err \in {"http_5xx", "network"} : status' = UploadErrorResult(err)
            /\ fpc' = "cleanup"
            /\ UNCHANGED upl_sent
       ELSE IF sink_kind = "ok"
       THEN /\ upl_sent' = upl_sent + 1
            /\ IF upl_sent + 1 = UploadChunks(dl_size)
               THEN status' = "True" /\ fpc' = "cleanup"
               ELSE UNCHANGED <<status, fpc>>
            /\ UNCHANGED sink_left
       ELSE /\ status' = UploadErrorResult(sink_kind)
            /\ fpc' = "cleanup"
            /\ UNCHANGED <<sink_left, upl_sent>>
    /\ UNCHANGED <<links, li, result, outcome, ending, trace, disk, raw_file, dl_size,
                   sink_kind, sink_n, flow_ret>>
    /\ UNCHANGED notFlow

\* if os.path.exists(raw_file): os.remove(raw_file); return status
Cleanup ==
    /\ fpc = "cleanup"
    /\ Stage("cleanup")
    /\ disk' = disk \ {raw_file}
    /\ PSLReturn(status, IF status = "True" THEN "upload_ok"
                         ELSE IF status = "LIMIT_REACHED" THEN "upload_quota"
                         ELSE "upload_failed")
    /\ UNCHANGED <<links, li, result, raw_file, dl_size, status, sink_kind, sink_n,
                   sink_left, upl_sent, flow_ret>>
    /\ UNCHANGED notFlow

\* result = await process_single_link(...); if result == "LIMIT_REACHED": break
AfterItem ==
    /\ fpc = "returned"
    /\ result' = outcome[li]
    /\ fpc' = IF BreakOn(outcome[li]) THEN "disconnect" ELSE "loop"
    /\ UNCHANGED <<links, li, outcome, ending, trace, disk, raw_file, dl_size, status,
                   sink_kind, sink_n, sink_left, upl_sent, flow_ret>>
    /\ UNCHANGED notFlow

\* await client.disconnect(); run_flow ends (a Python function without a
\* return statement returns None)
Disconnect ==
    /\ fpc = "disconnect"
    /\ fpc' = "done"
    /\ flow_ret' = "None"
    /\ UNCHANGED <<links, li, result, outcome, ending, trace, disk, raw_file, dl_size,
                   status, sink_kind, sink_n, sink_left, upl_sent>>
    /\ UNCHANGED notFlow

FlowNext ==
    \/ ClientStart
    \/ ClientStartFails
    \/ LoopNext
    \/ LoopEnd
    \/ ParseLink
    \/ FetchMessage
    \/ DownloadOpen
    \/ DownloadGather
    \/ UploadInit
    \/ UploadChunk
    \/ Cleanup
    \/ AfterItem
    \/ Disconnect

InitFlow == FlowInit /\ DLIdle /\ PlanIdle /\ AIIdle /\ MainIdle
SpecFlow == InitFlow /\ [][FlowNext]_vars

(***************************************************************************)
(* analyze_with_ai                                                         *)
(*                                                                         *)
(* A string is a sequence of characters.  "t", "y", "n" are letters of the *)
(* Sinhala script, "a" is an ASCII letter, "*" the asterisk and " " a      *)
(* blank.  An English word put in by the dictionary is one element         *)
(* ("Heat").  UNIT_MAPPING is cut down to two entries whose source terms,  *)
(* like the first two of the program, share a letter at the joint (the     *)
(* first ends with the letter the second starts with).                     *)
(***************************************************************************)
Sinhala == {"t", "y", "n"}
Chars == Sinhala \cup {"a", "*", " "}

UNIT_MAPPING ==
    << [sin |-> <<"t", "y">>, eng |-> "Heat"],
       [sin |-> <<"y", "n">>, eng |-> "Mechanics"] >>

Strings(n) == UNION {[1..k -> Chars] : k \in 0..n}

\* `sub in s` for a non-empty sub
Contains(s, sub) ==
    \E i \in 1..(Len(s) - Len(sub) + 1) : SubSeq(s, i, i + Len(sub) - 1) = sub

\* s.replace(old, new): every occurrence, left to right, not overlapping
RECURSIVE Replace(_, _, _)
Replace(s, old, new) ==
    IF Len(s) < Len(old) THEN s
    ELSE IF SubSeq(s, 1, Len(old)) = old
         THEN new \o Replace(SubSeq(s, Len(old) + 1, Len(s)), old, new)
         ELSE <<Head(s)>> \o Replace(Tail(s), old, new)

\* s.strip()
RECURSIVE LStrip(_)
LStrip(s) == IF s # <<>> /\ Head(s) = " " THEN LStrip(Tail(s)) ELSE s
RECURSIVE RStrip(_)
RStrip(s) == IF s # <<>> /\ s[Len(s)] = " " THEN RStrip(SubSeq(s, 1, Len(s) - 1)) ELSE s
Strip(s) == RStrip(LStrip(s))

HasSinhala(s) == \E i \in 1..Len(s) : s[i] \in Sinhala

\* The replies of the analyzer: no usable reply (the try block raises), or a
\* JSON object with or without a title (a string) and a category.
Replies ==
    {[kind |-> k] : k \in {"timeout", "non2xx", "unparsable"}}
    \cup {[kind |-> "json", result |-> r] :
            r \in {[title |-> t, category |-> c] :
                        t \in Strings(MaxTitleLen), c \in {"General", "Waves"}}
                  \cup {[title |-> t] : t \in Strings(MaxTitleLen)}
                  \cup {[category |-> c] : c \in {"General", "Waves"}}}

\* if not GH_TOKEN or not text_content: return {...}
EarlyReturn(text) ==
    [title |-> IF text # <<>> THEN text ELSE <<"Untitled">>, category |-> "General"]

\* The fail-safe loop over UNIT_MAPPING.items() from entry k on, on the
\* analyzer's result: a KeyError (no title, no category when it is read)
\* leaves the try block.
RECURSIVE FailSafe(_, _)
FailSafe(res, k) ==
    IF k > Len(UNIT_MAPPING) THEN [raised |-> FALSE, value |-> res]
    ELSE IF "title" \notin DOMAIN res THEN [raised |-> TRUE]
    ELSE IF Contains(res.title, UNIT_MAPPING[k].sin)
         THEN LET r2 == [res EXCEPT
                            !.title = Replace(@, UNIT_MAPPING[k].sin,
                                              <<UNIT_MAPPING[k].eng>>)]
              IN IF "category" \notin DOMAIN res THEN [raised |-> TRUE]
                 ELSE IF r2.category = "General"
                      THEN FailSafe([r2 EXCEPT !.category = UNIT_MAPPING[k].eng], k + 1)
                      ELSE FailSafe(r2, k + 1)
         ELSE FailSafe(res, k + 1)

\* the try block: the POST, the JSON extraction, the fail-safe loop
TryRemote(rep) ==
    IF rep.kind # "json" THEN [raised |-> TRUE] ELSE FailSafe(rep.result, 1)

\* the loop of the except branch from entry k on: the first term found in
\* text_content sets the category, is replaced in the title, and ends the loop
RECURSIVE FallbackLoop(_, _, _, _)
FallbackLoop(text, title, cat, k) ==
    IF k > Len(UNIT_MAPPING) THEN [title |-> title, category |-> cat]
    ELSE IF Contains(text, UNIT_MAPPING[k].sin)
         THEN [title |-> Replace(title, UNIT_MAPPING[k].sin, <<UNIT_MAPPING[k].eng>>),
               category |-> UNIT_MAPPING[k].eng]
         ELSE FallbackLoop(text, title, cat, k + 1)

\* the except branch: the manual fallback on text_content
Fallback(text) ==
    FallbackLoop(text, Strip(Replace(text, <<"*">>, <<>>)), "General", 1)

AIInit ==
    /\ aipc = "call"
    /\ GH_TOKEN \in BOOLEAN
    /\ text_content \in Strings(MaxTextLen)
    /\ reply = [kind |-> "none"]
    /\ ai_path = "none"
    /\ ai_result = [title |-> <<>>, category |-> "General"]

\* no token or no text: the early return, no request is made
AnalyzeEarly ==
    /\ aipc = "call"
    /\ ~GH_TOKEN \/ text_content = <<>>
    /\ aipc' = "returned"
    /\ ai_path' = "early"
    /\ ai_result' = EarlyReturn(text_content)
    /\ UNCHANGED <<GH_TOKEN, text_content, reply>>
    /\ UNCHANGED notAI

\* the request is made and the try block ends with `return result`
AnalyzeRemote ==
    /\ aipc = "call"
    /\ GH_TOKEN /\ text_content # <<>>
    /\ \E rep \in Replies :
          /\ ~TryRemote(rep).raised
          /\ reply' = rep
          /\ ai_result' = TryRemote(rep).value
    /\ aipc' = "returned"
    /\ ai_path' = "remote"
    /\ UNCHANGED <<GH_TOKEN, text_content>>
    /\ UNCHANGED notAI

\* the request is made and the try block raises: the except branch returns
AnalyzeFallback ==
    /\ aipc = "call"
    /\ GH_TOKEN /\ text_content # <<>>
    /\ \E rep \in Replies :
          /\ TryRemote(rep).raised
          /\ reply' = rep
    /\ ai_result' = Fallback(text_content)
    /\ aipc' = "returned"
    /\ ai_path' = "fallback"
    /\ UNCHANGED <<GH_TOKEN, text_content>>
    /\ UNCHANGED notAI

AINext == AnalyzeEarly \/ AnalyzeRemote \/ AnalyzeFallback

InitAI == AIInit /\ DLIdle /\ PlanIdle /\ FlowIdle /\ MainIdle
SpecAI == InitAI /\ [][AINext]_vars

(***************************************************************************)
(* process_videos.main                                                     *)
(***************************************************************************)
\* analyze_with_ai(text_content) for one token setting and one analyzer reply
analyze_with_ai(token, text, rep) ==
    IF ~token \/ text = <<>> THEN EarlyReturn(text)
    ELSE IF TryRemote(rep).raised THEN Fallback(text)
    ELSE TryRemote(rep).value

\* text = message.text or message.caption or "Untitled Video"
MessageText(t) == IF t # <<>> THEN t ELSE <<"Untitled Video">>

MainTexts == Strings(MaxMainTextLen)

MainReplies ==
    {r \in Replies :
        (r.kind = "json" /\ "title" \in DOMAIN r.result) =>
            Len(r.result.title) <= MaxMainTextLen}

\* `if not message or not message.media` is false
HasMedia_any(msg) == TRUE
HasMedia(msg) == msg.found /\ msg.media

MainInit ==
    /\ mpc = "start"
    /\ VIDEO_LINKS \in 0..MaxVideoLinks
    /\ item = 0
    /\ connected = FALSE
    /\ message = [found |-> FALSE, media |-> FALSE]
    /\ metadata = [title |-> <<>>, category |-> "General"]
    /\ path = 0
    /\ path_size = 0
    /\ sent = 0
    /\ playlist_id = FALSE
    /\ mtrace = [j \in 1..VIDEO_LINKS |-> <<>>]
    /\ mend = [j \in 1..VIDEO_LINKS |-> "none"]
    /\ mlog = [j \in 1..VIDEO_LINKS |-> {}]
    /\ downloads = {}

MStage(name) == mtrace' = [mtrace EXCEPT ![item] = Append(@, name)]

MLog(tags) == mlog' = [mlog EXCEPT ![item] = @ \cup tags]

\* the loop body ends (continue, or its last statement): back to the for
MainEnd(e) ==
    /\ mend' = [mend EXCEPT ![item] = e]
    /\ mpc' = "loop"

\* an exception no try block of main encloses: it leaves main and asyncio.run
MainRaise ==
    /\ mend' = [mend EXCEPT ![item] = "crashed"]
    /\ mpc' = "crashed"

\* except Exception as e: log_status("YT ERROR", f"Upload failed: {e}")
MainExcept(e) ==
    /\ MLog({"YT ERROR"})
    /\ MainEnd(e)

\* `if not VIDEO_LINKS: ... return`
MainNoLinks ==
    /\ mpc = "start"
    /\ VIDEO_LINKS = 0
    /\ mpc' = "done"
    /\ UNCHANGED <<VIDEO_LINKS, item, connected, message, metadata, path, path_size,
                   sent, playlist_id, mtrace, mend, mlog, downloads>>
    /\ UNCHANGED notMain

\* client.connect(), client.get_dialogs(), build(...): none is in a try block
MainConnect ==
    /\ mpc = "start"
    /\ VIDEO_LINKS > 0
    /\ \E r \in {"connect_raises", "get_dialogs_raises", "ok"} :
          /\ connected' = (r # "connect_raises")
          /\ mpc' = IF r = "ok" THEN "loop" ELSE "crashed"
    /\ UNCHANGED <<VIDEO_LINKS, item, message, metadata, path, path_size,
                   sent, playlist_id, mtrace, mend, mlog, downloads>>
    /\ UNCHANGED notMain

\* for i, link in enumerate(VIDEO_LINKS, 1): the next item
MainLoopNext ==
    /\ mpc = "loop"
    /\ item < VIDEO_LINKS
    /\ item' = item + 1
    /\ mpc' = "resolve"
    /\ message' = [found |-> FALSE, media |-> FALSE]
    /\ metadata' = [title |-> <<>>, category |-> "General"]
    /\ path' = 0
    /\ path_size' = 0
    /\ sent' = 0
    /\ playlist_id' = FALSE
    /\ UNCHANGED <<VIDEO_LINKS, connected, mtrace, mend, mlog, downloads>>
    /\ UNCHANGED notMain

\* the for loop is exhausted
MainLoopEnd ==
    /\ mpc = "loop"
    /\ item = VIDEO_LINKS
    /\ mpc' = "disconnect"
    /\ UNCHANGED <<VIDEO_LINKS, item, connected, message, metadata, path, path_size,
                   sent, playlist_id, mtrace, mend, mlog, downloads>>
    /\ UNCHANGED notMain

\* message, entity = await resolve_telegram_message(client, link)
\* if not message or not message.media: log_status("SKIP", ...); continue
MainResolve ==
    /\ mpc = "resolve"
    /\ MStage("resolve")
    /\ \E msg \in [found : BOOLEAN, media : BOOLEAN] :
          /\ msg.media => msg.found
          /\ message' = msg
          /\ IF HasMedia(msg)
             THEN mpc' = "enrich" /\ UNCHANGED <<mend, mlog>>
             ELSE MLog({"SKIP"}) /\ MainEnd("skipped")
    /\ UNCHANGED <<VIDEO_LINKS, item, connected, metadata, path, path_size,
                   sent, playlist_id, downloads>>
    /\ UNCHANGED notMain

\* 1. AI Analysis: metadata = await analyze_with_ai(text), then the two prints
\* of metadata['title'] and metadata['category']
MainEnrich ==
    /\ mpc = "enrich"
    /\ MStage("enrich")
    /\ \E token \in BOOLEAN, t \in MainTexts, rep \in MainReplies :
          LET md == analyze_with_ai(token, MessageText(t), rep)
          IN /\ metadata' = md
             /\ IF {"title", "category"} \subseteq DOMAIN md
                THEN mpc' = "download" /\ UNCHANGED mend
                ELSE MainRaise
    /\ UNCHANGED <<VIDEO_LINKS, item, connected, message, path, path_size,
                   sent, playlist_id, mlog, downloads>>
    /\ UNCHANGED notMain

\* 2. Download: path = await client.download_media(...); if not path: continue
MainDownload ==
    /\ mpc = "download"
    /\ MStage("download")
    /\ \E r \in {"raises", "none", "path"} :
          CASE r = "raises" ->
                  /\ MainRaise
                  /\ \E left \in BOOLEAN :
                        downloads' = IF left THEN downloads \cup {item} ELSE downloads
                  /\ UNCHANGED <<path, path_size>>
            [] r = "none" ->
                  /\ MainEnd("no_path")
                  /\ UNCHANGED <<path, path_size, downloads>>
            [] r = "path" ->
                  /\ \E s \in 1..MaxMainSize : path_size' = s
                  /\ path' = item
                  /\ downloads' = downloads \cup {item}
                  /\ mpc' = "upload_init"
                  /\ UNCHANGED mend
    /\ UNCHANGED <<VIDEO_LINKS, item, connected, message, metadata,
                   sent, playlist_id, mlog>>
    /\ UNCHANGED notMain

\* 3. Upload: MediaFileUpload(path, chunksize=10MB, resumable=True) and
\* youtube.videos().insert(...), inside the try block
MainUploadInit ==
    /\ mpc = "upload_init"
    /\ MStage("upload")
    /\ \E ok \in BOOLEAN :
          IF ok THEN mpc' = "uploading" /\ UNCHANGED <<mend, mlog>>
          ELSE MainExcept("upload_failed")
    /\ sent' = 0
    /\ UNCHANGED <<VIDEO_LINKS, item, connected, message, metadata, path, path_size,
                   playlist_id, downloads>>
    /\ UNCHANGED notMain

\* while response is None: status, response = request.next_chunk()
\* the last chunk returns the response: video_id = response['id']
MainUploadChunk ==
    /\ mpc = "uploading"
    /\ \E err \in {"none", "quota", "http", "other"} :
          CASE err = "none" ->
                  /\ sent' = Min(sent + main_chunksize, path_size)
                  /\ IF sent' = path_size
                     THEN mpc' = "playlist" /\ MLog({"SUCCESS"})
                     ELSE mpc' = "uploading" /\ UNCHANGED mlog
                  /\ UNCHANGED mend
            [] err = "quota" -> MainExcept("upload_quota") /\ UNCHANGED sent
            [] OTHER -> MainExcept("upload_failed") /\ UNCHANGED sent
    /\ UNCHANGED <<VIDEO_LINKS, item, connected, message, metadata, path, path_size,
                   playlist_id, mtrace, downloads>>
    /\ UNCHANGED notMain

\* get_or_create_playlist: the id of the playlist found or created, None
\* after any exception
get_or_create_playlist(r) == r \in {"found", "created"}

\* 4. Playlist Assignment: playlist_id = get_or_create_playlist(...)
MainGetPlaylist ==
    /\ mpc = "playlist"
    /\ MStage("postprocess")
    /\ \E r \in {"found", "created", "list_raises", "insert_raises"} :
          /\ playlist_id' = get_or_create_playlist(r)
          /\ IF playlist_id'
             THEN mpc' = "playlist_insert" /\ UNCHANGED mlog
             ELSE mpc' = "cleanup" /\ MLog({"PL ERROR"})
    /\ UNCHANGED <<VIDEO_LINKS, item, connected, message, metadata, path, path_size,
                   sent, mend, downloads>>
    /\ UNCHANGED notMain

\* if playlist_id: youtube.playlistItems().insert(...).execute()
MainPlaylistInsert ==
    /\ mpc = "playlist_insert"
    /\ \E ok \in BOOLEAN :
          IF ok THEN mpc' = "cleanup" /\ MLog({"PLAYLIST"}) /\ UNCHANGED mend
          ELSE MainExcept("post_failed")
    /\ UNCHANGED <<VIDEO_LINKS, item, connected, message, metadata, path, path_size,
                   sent, playlist_id, mtrace, downloads>>
    /\ UNCHANGED notMain

\* 5. Cleanup: os.remove(path), the last statement of the try block
MainCleanup ==
    /\ mpc = "cleanup"
    /\ MStage("cleanup")
    /\ downloads' = downloads \ {path}
    /\ MainEnd("uploaded")
    /\ UNCHANGED <<VIDEO_LINKS, item, connected, message, metadata, path, path_size,
                   sent, playlist_id, mlog>>
    /\ UNCHANGED notMain

\* await client.disconnect()
MainDisconnect ==
    /\ mpc = "disconnect"
    /\ connected' = FALSE
    /\ mpc' = "done"
    /\ UNCHANGED <<VIDEO_LINKS, item, message, metadata, path, path_size,
                   sent, playlist_id, mtrace, mend, mlog, downloads>>
    /\ UNCHANGED notMain

MainNext ==
    \/ MainNoLinks
    \/ MainConnect
    \/ MainLoopNext
    \/ MainLoopEnd
    \/ MainResolve
    \/ MainEnrich
    \/ MainDownload
    \/ MainUploadInit
    \/ MainUploadChunk
    \/ MainGetPlaylist
    \/ MainPlaylistInsert
    \/ MainCleanup
    \/ MainDisconnect

InitMain == MainInit /\ DLIdle /\ PlanIdle /\ FlowIdle /\ AIIdle
SpecMain == InitMain /\ [][MainNext]_vars

(***************************************************************************)
(* The two batch programs side by side: a run is a run of run_flow or a run *)
(* of process_videos.main.                                                  *)
(***************************************************************************)
InitOrch == InitFlow \/ InitMain
OrchNext == FlowNext \/ MainNext
SpecOrch == InitOrch /\ [][OrchNext]_vars

(***************************************************************************)
(* Properties of fast_download                                             *)
(***************************************************************************)
Parts == 0..(PartCount(file_size, part_size) - 1)

\* The range reads of parts 0..n-1, concatenated in offset order.
RECURSIVE ConcatSegments(_, _)
ConcatSegments(size, n) ==
    IF n = 0 THEN <<>>
    ELSE ConcatSegments(size, n - 1)
            \o RangeRead(Offset(n - 1, part_size), CurrentLimit(size, part_size, n - 1))

InQueue(i) == Cardinality({k \in 1..Len(queue) : queue[k] = i})
Holders(i) == Cardinality({w \in Workers : wpc[w] = "fetching" /\ wpart[w] = i})

\* C1: when fast_download returns the filename, the file has length file_size
\* and its content is the concatenation of the segments in offset order (which
\* is the source itself), whatever the interleaving of the workers and
\* whatever segments failed, also after a partial write, and were retried.
C1_AssembledFile ==
    dlpc = "returned" =>
        /\ Len(f) = file_size
        /\ f = ConcatSegments(file_size, PartCount(file_size, part_size))
        /\ f = RangeRead(0, file_size)

\* A download of three parts returned after two failures, one of them after
\* part of the segment had been written.
C1_Witness ==
    /\ dlpc = "returned"
    /\ fails = MaxFailures
    /\ partial_retry
    /\ PartCount(file_size, part_size) >= 3

\* C3: gather returns only when the queue is empty, no worker holds a segment
\* and every segment has been fetched.
C3_CompletionBarrier ==
    dlpc = "returned" =>
        /\ queue = <<>>
        /\ \A w \in Workers : wpc[w] = "exited"
        /\ fetched = Parts

\* The download returned after a segment was re-enqueued at a moment when
\* another worker had already seen the empty queue and exited.
C3_Witness ==
    /\ dlpc = "returned"
    /\ late_requeue

\* C4: while the workers run, every part that is not fetched yet is in the
\* queue exactly once or held by exactly one worker, never both and never
\* neither; a fetched part is in neither.
C4_NoLossNoDuplicate ==
    dlpc \in {"gather", "returned"} =>
        \A i \in Parts : InQueue(i) + Holders(i) = (IF i \in fetched THEN 0 ELSE 1)

\* A re-enqueued part waits in the queue while two workers hold parts of a
\* higher index (which were behind it in the initial queue).
C4_Witness ==
    /\ dlpc = "gather"
    /\ fails >= 1
    /\ \E k \in 1..Len(queue) :
          Cardinality({w \in Workers : wpc[w] = "fetching" /\ wpart[w] > queue[k]}) >= 2

\* C11: the attempts on one segment are bounded by a max-attempts budget and
\* the download fails once a segment has used it up.  In a download of one
\* part every failure is a failure of part 0: the workers are still running
\* only while part 0 has failed fewer than SegmentMaxAttempts times.
C11_BoundedAttempts ==
    (dlpc = "gather" /\ PartCount(file_size, part_size) = 1) =>
        fails < SegmentMaxAttempts

\* the parts that were dequeued and are neither completed nor back in the queue
InFlightParts == {i \in Parts : i \notin fetched /\ InQueue(i) = 0}

C20_ProgressWithinSize ==
    /\ reported <= file_size
    /\ downloaded_bytes <= file_size
    /\ dlpc = "returned" => downloaded_bytes = file_size

(***************************************************************************)
(* Properties of the segment arithmetic                                    *)
(***************************************************************************)
RECURSIVE SumLengths(_)
SumLengths(p) == IF p = <<>> THEN 0 ELSE p[Len(p)].length + SumLengths(SubSeq(p, 1, Len(p) - 1))

\* C2: for every totalSize > 0 and segmentSize > 0 the segments are
\* contiguous from offset 0, do not overlap, have length >= 1, sum to
\* totalSize, and only the last one may be shorter than segmentSize.
C2_SegmentsPartition ==
    planpc = "planned" =>
        /\ Len(plan) >= 1
        /\ plan[1].offset = 0
        /\ \A k \in 1..(Len(plan) - 1) :
              /\ plan[k].offset + plan[k].length = plan[k + 1].offset
              /\ plan[k].length = segmentSize
        /\ \A k \in 1..Len(plan) : plan[k].length >= 1 /\ plan[k].length <= segmentSize
        /\ plan[Len(plan)].offset + plan[Len(plan)].length = totalSize
        /\ SumLengths(plan) = totalSize

\* A finished plan of at least three segments whose last one is shorter.
C2_Witness ==
    /\ planpc = "planned"
    /\ Len(plan) >= 3
    /\ plan[Len(plan)].length < segmentSize

(***************************************************************************)
(* Properties of run_flow, process_single_link and upload_to_youtube       *)
(***************************************************************************)
Terminal == {"True", "False", "LIMIT_REACHED"}

\* C5: whenever process_single_link returns after it determined raw_file
\* (upload success, upload failure, quota exhausted, or an exception raised
\* while downloading or building metadata), raw_file does not exist on disk.
C5_NoFileAfterReturn ==
    (fpc = "returned" /\ raw_file # 0) => raw_file \notin disk

\* C6: when the upload of link k ends with the quota signature, every link
\* before k has its normal outcome, link k yields LIMIT_REACHED, no later link
\* is resolved, downloaded or uploaded, every later link is reported as
\* Skipped("quota"), and run_flow hands back an abortedEarly flag.
C6_QuotaSemantics ==
    fpc = "done" =>
        \A k \in Links :
            outcome[k] = "LIMIT_REACHED" =>
                /\ \A j \in 1..(k - 1) : outcome[j] \in {"True", "False"}
                /\ \A j \in (k + 1)..links :
                      /\ trace[j] = <<>>
                      /\ outcome[j] = "Skipped(quota)"
                /\ k < links => flow_ret = "abortedEarly"

\* C7: links are processed one at a time in input order (a link is started only
\* after every link before it returned), no per-link failure reaches run_flow's
\* own handler, and after a return other than LIMIT_REACHED the loop goes on:
\* run_flow leaves the loop only after a LIMIT_REACHED or after the last link.
C7_InOrderAndContinue ==
    /\ fpc # "idle" =>
          /\ \A j \in Links : j < li => outcome[j] \in Terminal
          /\ \A j \in Links : j > li => outcome[j] = "none" /\ trace[j] = <<>>
    /\ fpc = "client_error" => li = 0
    /\ fpc \in {"loop", "parse"} => \A j \in 1..(li - 1) : outcome[j] \in {"True", "False"}
    /\ fpc \in {"disconnect", "done"} =>
          \/ \E k \in Links : outcome[k] = "LIMIT_REACHED"
          \/ \A j \in Links : outcome[j] \in {"True", "False"}

\* A batch of three ran to its end: the first link could not be resolved, the
\* second failed in download or upload, the third was uploaded.
C7_Witness ==
    /\ fpc = "done"
    /\ links = 3
    /\ ending[1] \in {"invalid_link", "no_access", "fetch_error", "no_media"}
    /\ ending[2] \in {"download_error", "upload_failed"}
    /\ ending[3] = "upload_ok"

HasStage(tr, name) == \E k \in 1..Len(tr) : tr[k] = name

\* C16: with document.size = 0 the download raises instead of handing back a
\* file name: process_single_link goes from the download straight to its
\* exception handler, returns False, and no upload is attempted.
C16_ZeroSizeFails ==
    /\ (fpc \notin {"idle", "start"} /\ li >= 1 /\ HasStage(trace[li], "download")
            /\ dl_size = 0) =>
          /\ fpc \in {"returned", "loop", "disconnect", "done"}
          /\ outcome[li] = "False"
          /\ ending[li] = "download_error"
          /\ ~HasStage(trace[li], "metadata")
          /\ ~HasStage(trace[li], "upload")
    /\ \A j \in Links : ending[j] = "download_error" =>
          outcome[j] = "False" /\ ~HasStage(trace[j], "upload")

\* A call returned from the exception handler after fast_download had created
\* raw_file for a message of size 0.
C16_Witness ==
    /\ fpc = "returned"
    /\ dl_size = 0
    /\ raw_file \in disk
    /\ ending[li] = "download_error"
    /\ outcome[li] = "False"

\* C8: against a sink that fails transiently sink_n times and then accepts
\* every chunk, the upload ends with True when sink_n < max-attempts and with
\* False, returned to the caller, when sink_n >= max-attempts.
C8_UploadRetry ==
    (fpc = "returned" /\ sink_kind = "ok") =>
        outcome[li] = (IF sink_n < UploadMaxAttempts THEN "True" ELSE "False")

(***************************************************************************)
(* Properties of analyze_with_ai                                           *)
(***************************************************************************)
Unreachable == ~GH_TOKEN \/ reply.kind \in {"timeout", "non2xx", "unparsable"}

\* the analyzer's answer is structurally valid: a non-empty title and a category
ValidReply ==
    /\ reply.kind = "json"
    /\ DOMAIN reply.result = {"title", "category"}
    /\ reply.result.title # <<>>

\* C9: when the analyzer returned a structurally valid result whose title
\* holds a Sinhala character, the title returned holds none and is the title
\* of the local dictionary pass over the original text_content.
C9_ForcedFallback ==
    (aipc = "returned" /\ ValidReply /\ HasSinhala(reply.result.title)) =>
        /\ ~HasSinhala(ai_result.title)
        /\ ai_result.title = Fallback(text_content).title

\* C10: when no analyzer is reachable (no token, timeout, non-2xx or
\* unparsable reply), analyze_with_ai returns a dict with a non-empty title
\* and a category, for every text_content.
C10_UnreachableStillValid ==
    (aipc = "returned" /\ Unreachable) =>
        /\ ai_result.title # <<>>
        /\ "category" \in DOMAIN ai_result

\* C14: whenever analyze_with_ai returns after the analyzer answered with a
\* JSON object, whatever its fields, the metadata has a non-empty title and a
\* category.
C14_FullyPopulated ==
    (aipc = "returned" /\ reply.kind = "json") =>
        /\ DOMAIN ai_result = {"title", "category"}
        /\ ai_result.title # <<>>

(***************************************************************************)
(* Properties of process_videos.main                                       *)
(***************************************************************************)
MainItems == 1..VIDEO_LINKS

\* C12: the playlist step is taken only after the upload returned a video
\* id, and an item whose upload returned a video id ends without an upload
\* failure being logged, with the cleanup step run and its file removed.
C12_PostStepBestEffort ==
    \A j \in MainItems :
        /\ HasStage(mtrace[j], "postprocess") => "SUCCESS" \in mlog[j]
        /\ ("SUCCESS" \in mlog[j] /\ mend[j] # "none") =>
              /\ "YT ERROR" \notin mlog[j]
              /\ HasStage(mtrace[j], "cleanup")
              /\ j \notin downloads

\* C15: once the loop body of an item that was downloaded has ended, after a
\* successful upload, a failed upload or a failed playlist step, the item's
\* file is not in downloads/.
C15_FileDeletedAfterItem ==
    \A j \in MainItems :
        mend[j] \in {"uploaded", "upload_failed", "upload_quota", "post_failed"} =>
            j \notin downloads

\* C17: once the loop has started, main never leaves by an exception, and
\* when main is done every item ended processed or skipped and the client
\* is disconnected.
C17_BatchNeverCrashes ==
    /\ item >= 1 => mpc # "crashed"
    /\ (mpc = "done" /\ VIDEO_LINKS > 0) =>
          /\ ~connected
          /\ \A j \in MainItems : mend[j] \notin {"none", "crashed"}

\* C18: after an item's upload failed with a quota error, no later item is
\* downloaded or uploaded.
C18_QuotaHaltsBatch ==
    \A j, k \in MainItems :
        (j < k /\ mend[j] = "upload_quota") =>
            /\ ~HasStage(mtrace[k], "download")
            /\ ~HasStage(mtrace[k], "upload")

(***************************************************************************)
(* Stage order of the two batch programs                                   *)
(***************************************************************************)
\* every occurrence of stage b in tr has a stage a before it
Before(tr, a, b) ==
    \A k \in 1..Len(tr) : tr[k] = b => \E m \in 1..(k - 1) : tr[m] = a

\* process_single_link: resolve, download, metadata, upload; a message
\* without media ends after resolve
FlowStageOrder ==
    \A j \in 1..links :
        /\ Before(trace[j], "resolve", "download")
        /\ Before(trace[j], "download", "metadata")
        /\ Before(trace[j], "metadata", "upload")
        /\ ending[j] = "no_media" => trace[j] = <<"resolve">>

\* process_videos.main: an item whose message is missing or has no media
\* ends as skipped, after resolve alone
MainSkipsNoMedia ==
    (item >= 1 /\ mpc # "resolve" /\ ~(message.found /\ message.media)) =>
        /\ mtrace[item] = <<"resolve">>
        /\ mend[item] = "skipped"

C21_FallbackReplacesAllTerms ==
    (aipc = "returned" /\ ai_path = "fallback") =>
        \A k \in 1..Len(UNIT_MAPPING) :
            ~Contains(ai_result.title, UNIT_MAPPING[k].sin)

====
